---- MODULE Spec2Model ----
(***************************************************************************)
(* A model of the SwingLove stock dashboard: the AI provider fallback      *)
(* chain and response parser of ai_analysis.py, the symbol normalisation   *)
(* and NSE/BSE lookup of stock_data.py, the input validation of utils.py,  *)
(* the Gemini analyzer of gemini_analysis.py and the session of app.py.    *)
(*                                                                         *)
(* Python strings are sequences of lexemes.  In a stock symbol a lexeme is *)
(* one character.  In an AI response a lexeme is one character, except     *)
(* that each section-header word ("INSIGHTS:", "INVESTMENT_SUMMARY:", in   *)
(* upper or lower case) and each word of prose is one lexeme; no lexeme    *)
(* overlaps a header word, so substring tests on characters and membership *)
(* tests on lexemes agree.  A fixed sentence of the program is one lexeme. *)
(* In a chat input the words "analyze", "stock" and "analysis" of the      *)
(* patterns of validate_stock_symbol are one lexeme each, of 7, 5 and 8    *)
(* characters.                                                             *)
(* None is the empty tuple <<>> and a number n is the tuple <<n>>.         *)
(***************************************************************************)
EXTENDS Integers, Sequences, FiniteSets, TLC

VARIABLES
    \* AIAnalyzer.analyze_stock
    together_api_key, groq_api_key, stock_data, a_pc, calls, a_result,
    \* AIAnalyzer._parse_analysis
    analysis_text, p_pc, classes, parsed,
    \* StockDataFetcher.get_indian_symbol
    sym_input, sym_result, s_pc,
    \* StockDataFetcher.get_comprehensive_data
    f_symbol, formatted_symbol, lookups, info, f_pc,
    \* validate_stock_symbol
    user_input, stock_symbol, v_pc,
    \* validate_financial_data
    data, validation, d_pc,
    \* percentage metrics from the provider to the display
    r_info, r_data, shown, r_pc,
    \* GeminiStockAnalyzer.generate_stock_insights
    g_stock, g_response, g_result, g_pc,
    \* app.py: the session state and the script runs
    chat_history, current_stock_data, current_analysis, rendered, app_pc, requests

vars == <<together_api_key, groq_api_key, stock_data, a_pc, calls, a_result,
          analysis_text, p_pc, classes, parsed,
          sym_input, sym_result, s_pc,
          f_symbol, formatted_symbol, lookups, info, f_pc,
          user_input, stock_symbol, v_pc,
          data, validation, d_pc,
          r_info, r_data, shown, r_pc,
          g_stock, g_response, g_result, g_pc,
          chat_history, current_stock_data, current_analysis, rendered, app_pc, requests>>

analyzeVars == <<together_api_key, groq_api_key, stock_data, a_pc, calls, a_result>>
parseVars == <<analysis_text, p_pc, classes, parsed>>
symbolVars == <<sym_input, sym_result, s_pc>>
fetchVars == <<f_symbol, formatted_symbol, lookups, info, f_pc>>
validateVars == <<user_input, stock_symbol, v_pc>>
dataVars == <<data, validation, d_pc>>
ratioVars == <<r_info, r_data, shown, r_pc>>
geminiVars == <<g_stock, g_response, g_result, g_pc>>
appVars == <<chat_history, current_stock_data, current_analysis, rendered, app_pc, requests>>

\* The variables of the subsystems modelled after the first four
otherVars == <<validateVars, dataVars, ratioVars, geminiVars, appVars>>

----------------------------------------------------------------------------
(* str methods *)

IsSpace(c) == c \in {" ", "\n"}

RECURSIVE LStrip(_)
LStrip(s) ==
    IF s = <<>> THEN s
    ELSE IF IsSpace(Head(s)) THEN LStrip(Tail(s)) ELSE s

RECURSIVE RStrip(_)
RStrip(s) ==
    IF s = <<>> THEN s
    ELSE IF IsSpace(s[Len(s)]) THEN RStrip(SubSeq(s, 1, Len(s) - 1)) ELSE s

\* str.strip()
Strip(s) == RStrip(LStrip(s))

\* str.upper(), one lexeme
UpperChar(c) ==
    CASE c = "insights:" -> "INSIGHTS:"
      [] c = "investment_summary:" -> "INVESTMENT_SUMMARY:"
      [] c = "analyze" -> "ANALYZE"
      [] c = "stock" -> "STOCK"
      [] c = "analysis" -> "ANALYSIS"
      [] c = "a" -> "A"
      [] c = "b" -> "B"
      [] c = "c" -> "C"
      [] c = "d" -> "D"
      [] c = "e" -> "E"
      [] c = "f" -> "F"
      [] c = "g" -> "G"
      [] c = "h" -> "H"
      [] c = "i" -> "I"
      [] c = "j" -> "J"
      [] c = "k" -> "K"
      [] c = "l" -> "L"
      [] c = "m" -> "M"
      [] c = "n" -> "N"
      [] c = "o" -> "O"
      [] c = "p" -> "P"
      [] c = "q" -> "Q"
      [] c = "r" -> "R"
      [] c = "s" -> "S"
      [] c = "t" -> "T"
      [] c = "u" -> "U"
      [] c = "v" -> "V"
      [] c = "w" -> "W"
      [] c = "x" -> "X"
      [] c = "y" -> "Y"
      [] c = "z" -> "Z"
      [] OTHER -> c

\* str.upper()
Upper(s) == [i \in 1..Len(s) |-> UpperChar(s[i])]

\* tok in s
Contains(s, tok) == \E i \in 1..Len(s) : s[i] = tok

\* s[:n]
Take(s, n) == SubSeq(s, 1, IF Len(s) < n THEN Len(s) ELSE n)

\* s.endswith(suffix)
EndsWith(s, suffix) ==
    /\ Len(s) >= Len(suffix)
    /\ SubSeq(s, Len(s) - Len(suffix) + 1, Len(s)) = suffix

----------------------------------------------------------------------------
(* AIAnalyzer._generate_basic_analysis *)

None == <<>>

\* A number n is <<n>>; a str is the sequence of its characters, two at least.
\* The str 'Infinity' is what the provider gives for a ratio without a value.
Infinity == <<"I", "n", "f", "i", "n", "i", "t", "y">>

\* int or float
IsNumber(v) == Len(v) = 1

\* Python truthiness of a metric: neither None nor 0
Truthy(v) == v # None /\ v # <<0>>

PeLow == 15
PeHigh == 25
RoeMin == 15
\* debt_to_equity and current_ratio are kept in hundredths: 0.5 is 50, 1.5 is 150
DebtToEquityMax == 50
DividendYieldMin == 2
CurrentRatioMin == 150
MaxInsights == 5

DefaultInsights ==
    << <<"Financial analysis requires detailed review of recent performance">>,
       <<"Consider industry trends and market conditions">>,
       <<"Evaluate long-term growth prospects and competitive position">> >>

BasicSummary ==
    <<"This stock requires detailed fundamental analysis. Consider consulting with a financial advisor for personalized investment advice. Past performance does not guarantee future results.">>

PeInsight(sd) ==
    IF Truthy(sd.pe_ratio)
    THEN IF sd.pe_ratio[1] < PeLow
         THEN << <<"Stock appears to be undervalued based on P/E ratio">> >>
         ELSE IF sd.pe_ratio[1] > PeHigh
         THEN << <<"Stock appears to be overvalued based on P/E ratio">> >>
         ELSE << <<"Stock is reasonably valued based on P/E ratio">> >>
    ELSE <<>>

RoeInsight(sd) ==
    IF Truthy(sd.roe) /\ sd.roe[1] > RoeMin
    THEN << <<"Strong Return on Equity indicates efficient management">> >>
    ELSE <<>>

DebtInsight(sd) ==
    IF Truthy(sd.debt_to_equity) /\ sd.debt_to_equity[1] < DebtToEquityMax
    THEN << <<"Low debt-to-equity ratio suggests conservative financial management">> >>
    ELSE <<>>

DividendInsight(sd) ==
    IF Truthy(sd.dividend_yield) /\ sd.dividend_yield[1] > DividendYieldMin
    THEN << <<"Decent dividend yield provides income potential">> >>
    ELSE <<>>

LiquidityInsight(sd) ==
    IF Truthy(sd.current_ratio) /\ sd.current_ratio[1] > CurrentRatioMin
    THEN << <<"Strong current ratio indicates good liquidity position">> >>
    ELSE <<>>

\* The canned insights do not look at the data.
MutGenerateBasicAnalysisStatic(sd) ==
    [insights |-> DefaultInsights, investment_summary |-> BasicSummary]

\* The metrics the rules compare with a number
ComparedMetrics == {"pe_ratio", "roe", "debt_to_equity", "dividend_yield", "current_ratio"}

\* Lines 207-225 raise TypeError: a truthy metric that is no number is
\* compared with a number
BasicRaises(sd) == \E m \in ComparedMetrics : Truthy(sd[m]) /\ ~IsNumber(sd[m])

\* _generate_basic_analysis, for a stock_data whose comparisons do not raise
GenerateBasicAnalysis(sd) ==
    LET insights == PeInsight(sd) \o RoeInsight(sd) \o DebtInsight(sd)
                    \o DividendInsight(sd) \o LiquidityInsight(sd)
    IN  [insights |-> Take(IF insights = <<>> THEN DefaultInsights ELSE insights,
                           MaxInsights),
         investment_summary |-> BasicSummary]

----------------------------------------------------------------------------
(* AIAnalyzer._parse_analysis *)

InsightsHeader == "INSIGHTS:"
SummaryHeader == "INVESTMENT_SUMMARY:"
\* "U+2022" is the bullet character of line 177
Markers == {"U+2022", "-", "*"}

PendingInsights ==
    << <<"Analysis pending - please check back for detailed insights">> >>

PendingSummary ==
    <<"Investment analysis is being processed. Please try again for detailed recommendations.">>

\* The branch of the if/elif chain a trimmed line takes, on startswith alone.
MutLineClassPrefix(line) ==
    IF line # <<>> /\ UpperChar(Head(line)) = InsightsHeader THEN "insights_header"
    ELSE IF line # <<>> /\ UpperChar(Head(line)) = SummaryHeader THEN "summary_header"
    ELSE IF line # <<>> /\ Head(line) \in Markers THEN "bullet"
    ELSE "prose"

\* The branch of the if/elif chain a trimmed line takes.
LineClass(line) ==
    IF Contains(Upper(line), InsightsHeader) THEN "insights_header"
    ELSE IF Contains(Upper(line), SummaryHeader) THEN "summary_header"
    ELSE IF line # <<>> /\ Head(line) \in Markers THEN "bullet"
    ELSE "prose"

\* One iteration of the for loop; st = [section, insights, summary].
ParseLine(st, raw) ==
    LET line == Strip(raw)
        cls == LineClass(line)
    IN  IF cls = "insights_header" THEN [st EXCEPT !.section = "insights"]
        ELSE IF cls = "summary_header" THEN [st EXCEPT !.section = "summary"]
        ELSE IF cls = "bullet"
        THEN IF st.section = "insights"
             THEN [st EXCEPT !.insights = Append(@, Strip(Tail(line)))]
             ELSE st
        ELSE IF st.section = "summary" /\ line # <<>>
        THEN [st EXCEPT !.summary = @ \o line \o <<" ">>]
        ELSE st

RECURSIVE ParseLines(_, _)
ParseLines(st, lines) ==
    IF lines = <<>> THEN st
    ELSE ParseLines(ParseLine(st, Head(lines)), Tail(lines))

MutCleanUpNone(summary) == summary

\* investment_summary.strip()
CleanUp(summary) == Strip(summary)

MutTruncateLast(insights) ==
    IF Len(insights) <= MaxInsights THEN insights
    ELSE SubSeq(insights, Len(insights) - MaxInsights + 1, Len(insights))

\* insights[:5]
Truncate(insights) == Take(insights, MaxInsights)

\* text is analysis_text.split('\n'): a non-empty sequence of lines
ParseAnalysis(text) ==
    LET st == ParseLines([section |-> "none", insights |-> <<>>, summary |-> <<>>], text)
        summary == CleanUp(st.summary)
        insights == IF st.insights = <<>> THEN PendingInsights ELSE st.insights
    IN  [insights |-> Truncate(insights),
         investment_summary |-> IF summary = <<>> THEN PendingSummary ELSE summary]

\* "".split('\n')
EmptyText == << <<>> >>

NoResult == [insights |-> <<>>, investment_summary |-> <<>>]

----------------------------------------------------------------------------
(* AIAnalyzer.analyze_stock *)

\* Metric values: None, 0, and numbers on either side of each threshold.
StockDatas ==
    [pe_ratio : {None, <<0>>, <<10>>, <<20>>, <<30>>, Infinity},
     roe : {None, <<10>>, <<20>>},
     debt_to_equity : {None, <<25>>, <<100>>},
     dividend_yield : {None, <<1>>, <<3>>},
     current_ratio : {None, <<100>>, <<200>>}]

\* os.getenv(..., ""): unset, or some key
ApiKeys == {"", "key"}

\* Responses a provider may send, as analysis_text.split('\n')
SampleTexts ==
    { << <<"INSIGHTS:">>, <<"U+2022", " ", "a">>, <<"-", " ", "b">>, <<>>,
         <<"INVESTMENT_SUMMARY:">>, <<"c">>, <<"a">> >>,
      << <<"insights:">>, <<"*", "a">>, <<"*", "b">>, <<"*", "c">>, <<"*", "a">>,
         <<"*", "b">>, <<"*", "c">> >>,
      << <<"c">>, <<"-", "a">> >>,
      << <<" ">> >> }

\* What one request to a provider does: it raises, or returns a text
Outcomes ==
    {[raised |-> TRUE, text |-> EmptyText]}
    \cup {[raised |-> FALSE, text |-> t] : t \in SampleTexts \cup {EmptyText}}

\* "if analysis:" on the text a provider returned
Usable(out) == ~out.raised /\ out.text # EmptyText

\* The result of _parse_analysis when lines 187-191 fill in both placeholders
Placeholders == [insights |-> PendingInsights, investment_summary |-> PendingSummary]

\* _parse_analysis extracts neither an insight nor a summary from the text
NothingExtracted(text) ==
    LET st == ParseLines([section |-> "none", insights |-> <<>>, summary |-> <<>>], text)
    IN  st.insights = <<>> /\ Strip(st.summary) = <<>>

Call(provider, out) == [provider |-> provider, raised |-> out.raised, text |-> out.text]

AnalyzeIdle ==
    /\ together_api_key = "" /\ groq_api_key = ""
    /\ stock_data = [pe_ratio |-> None, roe |-> None, debt_to_equity |-> None,
                     dividend_yield |-> None, current_ratio |-> None]
    /\ a_pc = "idle" /\ calls = <<>> /\ a_result = NoResult

ParseIdle ==
    /\ analysis_text = EmptyText /\ p_pc = "idle" /\ classes = <<>> /\ parsed = NoResult

\* AIAnalyzer() and a call of analyze_stock(stock_data) about to run
InitAnalyze ==
    /\ together_api_key \in ApiKeys
    /\ groq_api_key \in ApiKeys
    /\ stock_data \in StockDatas
    /\ a_pc = "together"
    /\ calls = <<>>
    /\ a_result = NoResult

\* The request is not followed by a return: the chain goes on after a usable text.
MutCallTogetherNoReturn(out) ==
    /\ a_pc = "together" /\ together_api_key # ""
    /\ calls' = Append(calls, Call("together", out))
    /\ a_result' = IF Usable(out) THEN ParseAnalysis(out.text) ELSE a_result
    /\ a_pc' = "groq"
    /\ UNCHANGED <<together_api_key, groq_api_key, stock_data, parseVars, symbolVars, fetchVars, otherVars>>

\* A failed request is made again.
MutCallTogetherRetry(out) ==
    /\ a_pc = "together" /\ together_api_key # ""
    /\ calls' = Append(calls, Call("together", out))
    /\ IF Usable(out)
       THEN a_result' = ParseAnalysis(out.text) /\ a_pc' = "done"
       ELSE a_result' = a_result /\ a_pc' = IF out.raised THEN "together" ELSE "groq"
    /\ UNCHANGED <<together_api_key, groq_api_key, stock_data, parseVars, symbolVars, fetchVars, otherVars>>

\* Lines 23-29, key set: one request to Together; a usable text is parsed and
\* returned, an exception or an empty text leads on to Groq.
CallTogether(out) ==
    /\ a_pc = "together" /\ together_api_key # ""
    /\ calls' = Append(calls, Call("together", out))
    /\ IF Usable(out)
       THEN a_result' = ParseAnalysis(out.text) /\ a_pc' = "done"
       ELSE a_result' = a_result /\ a_pc' = "groq"
    /\ UNCHANGED <<together_api_key, groq_api_key, stock_data, parseVars, symbolVars, fetchVars, otherVars>>

\* Line 23, no key
SkipTogether ==
    /\ a_pc = "together" /\ together_api_key = ""
    /\ a_pc' = "groq"
    /\ UNCHANGED <<together_api_key, groq_api_key, stock_data, calls, a_result, parseVars, symbolVars, fetchVars, otherVars>>

\* The text Groq returned is dropped and the basic analysis is used.
MutCallGroqIgnored(out) ==
    /\ a_pc = "groq" /\ groq_api_key # ""
    /\ calls' = Append(calls, Call("groq", out))
    /\ a_result' = a_result /\ a_pc' = "basic"
    /\ UNCHANGED <<together_api_key, groq_api_key, stock_data, parseVars, symbolVars, fetchVars, otherVars>>

\* A text from which nothing is extracted counts as a failure of Groq.
MutCallGroqSkipUnparsed(out) ==
    /\ a_pc = "groq" /\ groq_api_key # ""
    /\ calls' = Append(calls, Call("groq", out))
    /\ IF Usable(out) /\ ~NothingExtracted(out.text)
       THEN a_result' = ParseAnalysis(out.text) /\ a_pc' = "done"
       ELSE a_result' = a_result /\ a_pc' = "basic"
    /\ UNCHANGED <<together_api_key, groq_api_key, stock_data, parseVars, symbolVars, fetchVars, otherVars>>

\* Lines 32-38, key set
CallGroq(out) ==
    /\ a_pc = "groq" /\ groq_api_key # ""
    /\ calls' = Append(calls, Call("groq", out))
    /\ IF Usable(out)
       THEN a_result' = ParseAnalysis(out.text) /\ a_pc' = "done"
       ELSE a_result' = a_result /\ a_pc' = "basic"
    /\ UNCHANGED <<together_api_key, groq_api_key, stock_data, parseVars, symbolVars, fetchVars, otherVars>>

\* Line 32, no key
SkipGroq ==
    /\ a_pc = "groq" /\ groq_api_key = ""
    /\ a_pc' = "basic"
    /\ UNCHANGED <<together_api_key, groq_api_key, stock_data, calls, a_result, parseVars, symbolVars, fetchVars, otherVars>>

\* Lines 41-45: the basic analysis is returned; an exception of its
\* comparisons is caught at line 43 and raised again by the same call at
\* line 45, and leaves analyze_stock
ReturnBasic ==
    /\ a_pc = "basic"
    /\ IF BasicRaises(stock_data)
       THEN a_result' = a_result /\ a_pc' = "raised"
       ELSE a_result' = GenerateBasicAnalysis(stock_data) /\ a_pc' = "done"
    /\ UNCHANGED <<together_api_key, groq_api_key, stock_data, calls, parseVars, symbolVars, fetchVars, otherVars>>

NextAnalyze ==
    \/ \E out \in Outcomes : CallTogether(out)
    \/ SkipTogether
    \/ \E out \in Outcomes : CallGroq(out)
    \/ SkipGroq
    \/ ReturnBasic

SymbolIdle == sym_input = <<>> /\ sym_result = <<>> /\ s_pc = "idle"

FetchIdle ==
    /\ f_symbol = <<>> /\ formatted_symbol = <<>> /\ lookups = <<>>
    /\ info = {} /\ f_pc = "idle"

ValidateIdle == user_input = <<>> /\ stock_symbol = <<>> /\ v_pc = "idle"

DataIdle == data = <<>> /\ validation = <<>> /\ d_pc = "idle"

RatioIdle == r_info = <<>> /\ r_data = <<>> /\ shown = <<>> /\ r_pc = "idle"

GeminiIdle == g_stock = <<>> /\ g_response = <<>> /\ g_result = <<>> /\ g_pc = "idle"

AppIdle ==
    /\ chat_history = <<>> /\ current_stock_data = <<>> /\ current_analysis = <<>>
    /\ rendered = {} /\ app_pc = "idle" /\ requests = 0

\* Every subsystem modelled after the first four is at rest
OthersIdle == ValidateIdle /\ DataIdle /\ RatioIdle /\ GeminiIdle /\ AppIdle

Init == InitAnalyze /\ ParseIdle /\ SymbolIdle /\ FetchIdle /\ OthersIdle

Next == NextAnalyze

Spec == Init /\ [][Next]_vars

----------------------------------------------------------------------------
(* Claims about analyze_stock, checked under Spec *)

CallsOf(provider) == {i \in 1..Len(calls) : calls[i].provider = provider}

WellFormed(r) ==
    /\ DOMAIN r = {"insights", "investment_summary"}
    /\ Len(r.insights) >= 1 /\ Len(r.insights) <= 5
    /\ \A i \in 1..Len(r.insights) : DOMAIN r.insights[i] = 1..Len(r.insights[i])
    /\ r.investment_summary # <<>>

\* C1: analyze_stock never propagates a failure of a provider: no exception
\* leaves it, after every outcome of a request it either goes on or has
\* returned, and what it returns has exactly the keys insights (1 to 5
\* strings) and investment_summary (a non-empty string).
C1_WellFormedResult ==
    /\ a_pc \in {"together", "groq", "basic", "done"}
    /\ a_pc # "done" => ENABLED NextAnalyze
    /\ a_pc = "done" => WellFormed(a_result)

\* C2: the providers are requested in the order Together, Groq: a request to
\* Groq is made only when Together had no key or its one request raised or
\* returned empty text, and no request to Together follows one to Groq.
C2_ProviderOrder ==
    \A i \in CallsOf("groq") :
        /\ \A j \in CallsOf("together") : j < i /\ ~Usable(calls[j])
        /\ together_api_key = "" \/ \E j \in CallsOf("together") : j < i

C2_Witness ==
    /\ Len(calls) = 2
    /\ calls[1].provider = "together" /\ ~calls[1].raised /\ calls[1].text = EmptyText
    /\ calls[2].provider = "groq"

\* C3: the first usable text wins: once Together has returned non-empty text
\* the call has returned the parse of that text and Groq is never requested;
\* once Groq has returned non-empty text, Together having failed, the call
\* has returned the parse of the Groq text.
C3_FirstSuccessWins ==
    /\ \A i \in CallsOf("together") :
           Usable(calls[i]) =>
               /\ a_pc = "done"
               /\ a_result = ParseAnalysis(calls[i].text)
               /\ CallsOf("groq") = {}
    /\ \A i \in CallsOf("groq") :
           (Usable(calls[i]) /\ \A j \in CallsOf("together") : ~Usable(calls[j])) =>
               /\ a_pc = "done"
               /\ a_result = ParseAnalysis(calls[i].text)

C3_Witness ==
    /\ a_pc = "done" /\ Len(calls) = 2
    /\ calls[1].provider = "together" /\ calls[1].raised
    /\ calls[2].provider = "groq" /\ Usable(calls[2])
    /\ a_result.insights = << <<"a">>, <<"b">> >>

\* Every provider was skipped, raised or returned empty text, and the call returned.
Exhausted == a_pc = "done" /\ \A i \in 1..Len(calls) : ~Usable(calls[i])

\* C4 as claimed: on exhaustion the returned analysis is one fixed text, the
\* same whatever stock_data holds.
C4_StaticCanned ==
    Exhausted =>
        a_result = [insights |-> DefaultInsights, investment_summary |-> BasicSummary]

HasInsight(sentence) ==
    \E i \in 1..Len(a_result.insights) : a_result.insights[i] = <<sentence>>

\* The canned sentences that look at the data, in the order they are tried.
RuleSentences ==
    << {"Stock appears to be undervalued based on P/E ratio",
        "Stock appears to be overvalued based on P/E ratio",
        "Stock is reasonably valued based on P/E ratio"},
       {"Strong Return on Equity indicates efficient management"},
       {"Low debt-to-equity ratio suggests conservative financial management"},
       {"Decent dividend yield provides income potential"},
       {"Strong current ratio indicates good liquidity position"} >>

RuleOf(insight) == CHOOSE k \in 1..5 : insight[1] \in RuleSentences[k]

\* C4 amended: on exhaustion investment_summary is one fixed text, and the
\* insights are fixed sentences chosen by thresholds on pe_ratio, roe,
\* debt_to_equity, dividend_yield and current_ratio, in that order, or the
\* three fixed default insights when no threshold applies; an exception
\* leaves the call only on exhaustion with a metric that is no number.
C4_BasicAnalysis ==
    /\ a_pc = "raised" =>
           (BasicRaises(stock_data) /\ \A i \in 1..Len(calls) : ~Usable(calls[i]))
    /\ Exhausted =>
        LET sd == stock_data
            pe == Truthy(sd.pe_ratio)
            any == \E k \in 1..5 : \E x \in RuleSentences[k] : HasInsight(x)
        IN  /\ a_result.investment_summary = BasicSummary
            /\ HasInsight("Stock appears to be undervalued based on P/E ratio")
                   <=> (pe /\ sd.pe_ratio[1] < 15)
            /\ HasInsight("Stock appears to be overvalued based on P/E ratio")
                   <=> (pe /\ sd.pe_ratio[1] > 25)
            /\ HasInsight("Stock is reasonably valued based on P/E ratio")
                   <=> (pe /\ sd.pe_ratio[1] >= 15 /\ sd.pe_ratio[1] <= 25)
            /\ HasInsight("Strong Return on Equity indicates efficient management")
                   <=> (sd.roe # None /\ sd.roe[1] > 15)
            /\ HasInsight("Low debt-to-equity ratio suggests conservative financial management")
                   <=> (sd.debt_to_equity # None /\ sd.debt_to_equity[1] # 0
                        /\ sd.debt_to_equity[1] < 50)
            /\ HasInsight("Decent dividend yield provides income potential")
                   <=> (sd.dividend_yield # None /\ sd.dividend_yield[1] > 2)
            /\ HasInsight("Strong current ratio indicates good liquidity position")
                   <=> (sd.current_ratio # None /\ sd.current_ratio[1] > 150)
            /\ IF any
               THEN \A i, j \in 1..Len(a_result.insights) :
                        i < j => RuleOf(a_result.insights[i]) < RuleOf(a_result.insights[j])
               ELSE a_result.insights = DefaultInsights

C4_Witness ==
    /\ Exhausted
    /\ stock_data.pe_ratio = <<10>> /\ stock_data.current_ratio = <<200>>
    /\ a_result.insights =
           << <<"Stock appears to be undervalued based on P/E ratio">>,
              <<"Strong current ratio indicates good liquidity position">> >>

\* C5: no retry: within one call of analyze_stock each provider endpoint is
\* requested at most once, whatever the requests do.
C5_NoRetry ==
    /\ Cardinality(CallsOf("together")) <= 1
    /\ Cardinality(CallsOf("groq")) <= 1

C5_Witness ==
    /\ a_pc = "done" /\ Len(calls) = 2
    /\ calls[1].provider = "together" /\ calls[1].raised
    /\ calls[2].provider = "groq" /\ ~calls[2].raised /\ calls[2].text = EmptyText

\* C17 as stated: the chain advances past a text from which nothing can be
\* extracted: when a provider returned non-empty text from which
\* _parse_analysis extracts neither an insight nor a summary, the call went
\* on to the next provider or to the canned analysis, and its result is not
\* the one made of the two placeholders only.
C17_AdvancesPastUnparsed ==
    a_pc = "done" =>
        /\ a_result # Placeholders
        /\ \A i \in 1..Len(calls) :
               (Usable(calls[i]) /\ NothingExtracted(calls[i].text))
                   => (i < Len(calls) \/ a_result = GenerateBasicAnalysis(stock_data))

\* C17 amended: usable means non-empty: when a provider returned non-empty
\* text from which _parse_analysis extracts neither an insight nor a summary,
\* the call has returned, that request was its last one, and the result is
\* the one made of the two placeholders.
C17_UnparsedTextReturned ==
    \A i \in 1..Len(calls) :
        (Usable(calls[i]) /\ NothingExtracted(calls[i].text))
            => (a_pc = "done" /\ i = Len(calls) /\ a_result = Placeholders)

C17_Witness ==
    /\ a_pc = "done" /\ Len(calls) = 2
    /\ calls[1].provider = "together" /\ calls[1].raised
    /\ calls[2].provider = "groq" /\ calls[2].text = << <<"c">>, <<"-", "a">> >>
    /\ a_result = Placeholders

----------------------------------------------------------------------------
(* AIAnalyzer._parse_analysis on its own, over bounded responses *)

MaxLines == 7
MaxLineLen == 2

Lexemes == {" ", "U+2022", "-", "*", "INSIGHTS:", "insights:", "INVESTMENT_SUMMARY:", "a"}

\* Every line of at most MaxLineLen lexemes
FreeLines == UNION {[1..n -> Lexemes] : n \in 0..MaxLineLen}

\* The headers and two bullets, as the prompt asks for them
CoreLines ==
    { <<"INSIGHTS:">>, <<"INVESTMENT_SUMMARY:">>, <<"U+2022", " ", "a">>,
      <<"-", "b", " ">> }

\* The lines before a free line: no section, either section, a summary
\* begun, a summary left for the insights
LinesBefore ==
    { <<>>, << <<"INSIGHTS:">> >>, << <<"INVESTMENT_SUMMARY:">> >>,
      << <<"INVESTMENT_SUMMARY:">>, <<"c">> >>,
      << <<"INVESTMENT_SUMMARY:">>, <<" ", "c">>, <<"INSIGHTS:">> >> }

\* The lines after a free line: none, a bullet and prose, a summary
LinesAfter ==
    { <<>>, << <<"-", "b">>, <<"c", " ", "b">> >>,
      << <<"investment_summary:">>, <<"c", " ">>, <<>>, <<"b">> >> }

\* Responses as split('\n') gives them: at least one line.  Either up to
\* MaxLines header and bullet lines, or any one line of lexemes in a context.
Texts ==
    UNION {[1..n -> CoreLines] : n \in 1..MaxLines}
    \cup {b \o <<l>> \o a : b \in LinesBefore, l \in FreeLines, a \in LinesAfter}

InitParse ==
    /\ analysis_text \in Texts
    /\ p_pc = "call"
    /\ classes = <<>>
    /\ parsed = NoResult
    /\ AnalyzeIdle /\ SymbolIdle /\ FetchIdle /\ OthersIdle

\* _parse_analysis(analysis_text); classes records the branch each line took
Parse ==
    /\ p_pc = "call"
    /\ parsed' = ParseAnalysis(analysis_text)
    /\ classes' = [i \in 1..Len(analysis_text) |-> LineClass(Strip(analysis_text[i]))]
    /\ p_pc' = "done"
    /\ UNCHANGED <<analysis_text, analyzeVars, symbolVars, fetchVars, otherVars>>

NextParse == Parse

SpecParse == InitParse /\ [][NextParse]_vars

----------------------------------------------------------------------------
(* Claims about _parse_analysis, checked under SpecParse *)

Headers == {"insights_header", "summary_header"}

\* The section in force at line i: the one the last header line before it opened
SectionAt(i) ==
    LET H == {j \in 1..(i - 1) : classes[j] \in Headers}
    IN  IF H = {} THEN "none"
        ELSE LET last == CHOOSE j \in H : \A k \in H : k <= j
             IN  IF classes[last] = "insights_header" THEN "insights" ELSE "summary"

\* The k-th smallest element of a set of line numbers
Nth(S, k) == CHOOSE i \in S : Cardinality({j \in S : j < i}) = k - 1

\* The bulleted lines of the INSIGHTS section
InsightLines ==
    {i \in 1..Len(classes) : classes[i] = "bullet" /\ SectionAt(i) = "insights"}

\* C6: the returned insights are at most 5, and when the INSIGHTS section has
\* bulleted lines they are the first 5 of them, in order, each without its
\* marker character and trimmed.
C6_BoundedInsights ==
    p_pc = "done" =>
        /\ Len(parsed.insights) <= 5
        /\ InsightLines # {} =>
               LET n == IF Cardinality(InsightLines) < 5
                        THEN Cardinality(InsightLines) ELSE 5
               IN  /\ Len(parsed.insights) = n
                   /\ \A k \in 1..n :
                          parsed.insights[k] =
                              Strip(Tail(Strip(analysis_text[Nth(InsightLines, k)])))

C6_Witness ==
    /\ p_pc = "done"
    /\ Cardinality(InsightLines) = 6
    /\ analysis_text[2] = <<"U+2022", " ", "a">>
    /\ analysis_text[7] = <<"-", "b", " ">>
    /\ parsed.insights = << <<"a">>, <<"a">>, <<"a">>, <<"a">>, <<"a">> >>

\* The non-empty prose lines of the INVESTMENT_SUMMARY section
SummaryLines ==
    {i \in 1..Len(classes) :
        /\ classes[i] = "prose" /\ SectionAt(i) = "summary"
        /\ Strip(analysis_text[i]) # <<>>}

RECURSIVE JoinTrimmed(_, _)
JoinTrimmed(text, S) ==
    IF S = {} THEN <<>>
    ELSE LET i == Nth(S, 1)
         IN  IF S = {i} THEN Strip(text[i])
             ELSE Strip(text[i]) \o <<" ">> \o JoinTrimmed(text, S \ {i})

\* C7: investment_summary is the non-empty prose lines of the
\* INVESTMENT_SUMMARY section, each trimmed, joined by single spaces in input
\* order, with no white space at either end; with no such line it is the
\* fixed placeholder.
C7_TrimmedSummary ==
    p_pc = "done" =>
        IF SummaryLines = {}
        THEN parsed.investment_summary = PendingSummary
        ELSE /\ parsed.investment_summary = JoinTrimmed(analysis_text, SummaryLines)
             /\ ~IsSpace(Head(parsed.investment_summary))
             /\ ~IsSpace(parsed.investment_summary[Len(parsed.investment_summary)])

C7_Witness ==
    /\ p_pc = "done"
    /\ Cardinality(SummaryLines) = 3
    /\ analysis_text[3] = <<" ", "a">>
    /\ parsed.investment_summary = <<"c", " ", "a", " ", "c", " ", "b">>

\* header, bullet or prose: the three classes of the line classification
Kind(class) == IF class \in Headers THEN "header" ELSE class

HeaderWords == {InsightsHeader, SummaryHeader}

\* The class of a trimmed line by its prefix alone
PrefixKind(line) ==
    IF line = <<>> THEN "prose"
    ELSE IF UpperChar(line[1]) \in HeaderWords THEN "header"
    ELSE IF line[1] \in Markers THEN "bullet"
    ELSE "prose"

\* C8 as claimed: every line is classified by its prefix: a header exactly
\* when the trimmed line starts with a header word, a bullet exactly when it
\* starts with a marker character, prose otherwise; a header word later in
\* the line makes no header.
C8_PrefixClassification ==
    p_pc = "done" =>
        \A i \in 1..Len(analysis_text) :
            Kind(classes[i]) = PrefixKind(Strip(analysis_text[i]))

\* C8 amended: a trimmed line is a section header exactly when a header word
\* occurs anywhere in it (case-insensitive), also after a bullet marker or
\* after prose; a line without a header word is a bulleted insight exactly
\* when it starts with one of the three marker characters, and prose
\* continuation otherwise.
C8_SubstringClassification ==
    p_pc = "done" =>
        \A i \in 1..Len(analysis_text) :
            LET line == Strip(analysis_text[i])
                hasWord == \E k \in 1..Len(line) : UpperChar(line[k]) \in HeaderWords
                marked == line # <<>> /\ line[1] \in Markers
            IN  /\ Kind(classes[i]) = "header" <=> hasWord
                /\ Kind(classes[i]) = "bullet" <=> (~hasWord /\ marked)
                /\ Kind(classes[i]) = "prose" <=> (~hasWord /\ ~marked)
                /\ Kind(classes[i]) \in {"header", "bullet", "prose"}

C8_Witness ==
    /\ p_pc = "done"
    /\ Len(analysis_text) = 4
    /\ analysis_text[1] = <<"INVESTMENT_SUMMARY:">>
    /\ analysis_text[2] = <<"a", "insights:">>
    /\ classes = <<"summary_header", "insights_header", "bullet", "prose">>
    /\ parsed.insights = << <<"b">> >>
    /\ parsed.investment_summary = PendingSummary

\* The position of the first header word of a line that holds one
HeaderAt(line) ==
    CHOOSE k \in 1..Len(line) :
        /\ UpperChar(line[k]) \in HeaderWords
        /\ \A j \in 1..(k - 1) : UpperChar(line[j]) \notin HeaderWords

\* The text that follows the header word on the same line, trimmed
AfterHeader(line) == Strip(SubSeq(line, HeaderAt(line) + 1, Len(line)))

\* The section a header word opens
SectionOf(word) == IF UpperChar(word) = InsightsHeader THEN "insights" ELSE "summary"

\* A line as C22 reads it: a header opens its section and the text after it
\* on the same line is content of that section; a bulleted line is an
\* insight while the section is INSIGHTS; a prose line goes to the summary
\* while the section is INVESTMENT_SUMMARY; anything else is dropped.
RECURSIVE ReadLine(_, _)
ReadLine(st, raw) ==
    LET line == Strip(raw)
    IN  IF \E k \in 1..Len(line) : UpperChar(line[k]) \in HeaderWords
        THEN ReadLine([st EXCEPT !.section = SectionOf(line[HeaderAt(line)])],
                         AfterHeader(line))
        ELSE IF line # <<>> /\ Head(line) \in Markers
        THEN IF st.section = "insights"
             THEN [st EXCEPT !.insights = Append(@, Strip(Tail(line)))]
             ELSE st
        ELSE IF st.section = "summary" /\ line # <<>>
        THEN [st EXCEPT !.summary = @ \o line \o <<" ">>]
        ELSE st

RECURSIVE ReadLines(_, _)
ReadLines(st, lines) ==
    IF lines = <<>> THEN st
    ELSE ReadLines(ReadLine(st, Head(lines)), Tail(lines))

\* The result C22 describes for a response
SectionContent(text) ==
    LET st == ReadLines([section |-> "none", insights |-> <<>>, summary |-> <<>>], text)
        summary == Strip(st.summary)
    IN  [insights |-> Take(IF st.insights = <<>> THEN PendingInsights ELSE st.insights,
                           MaxInsights),
         investment_summary |-> IF summary = <<>> THEN PendingSummary ELSE summary]

\* C22: only text inside a section reaches the result, the section being the
\* one the most recent header opened: lines before the first header are
\* dropped, bulleted lines become insights only in the INSIGHTS section,
\* prose lines join the summary only in the INVESTMENT_SUMMARY section, a
\* later header switches the section, and nothing is dropped from the
\* section it belongs to, the text after a header word on the same line
\* included.
C22_SectionContentKept ==
    p_pc = "done" => parsed = SectionContent(analysis_text)

\* A response whose header lines hold nothing after the header word
BareHeaders ==
    \A i \in 1..Len(analysis_text) :
        LET line == Strip(analysis_text[i])
        IN  classes[i] \in Headers => AfterHeader(line) = <<>>

\* With every header alone on its line (text before the header word is
\* dropped by both readings) the result is the one C22 describes.
C22_BareHeadersKept ==
    (p_pc = "done" /\ BareHeaders) => parsed = SectionContent(analysis_text)

----------------------------------------------------------------------------
(* StockDataFetcher.get_indian_symbol *)

DotNS == <<".", "N", "S">>
DotBO == <<".", "B", "O">>

\* The dict indian_symbols, as pairs <<key, value>>
indian_symbols ==
    { << <<"T", "C", "S">>,
         <<"T", "C", "S", ".", "N", "S">> >>,
      << <<"I", "N", "F", "Y">>,
         <<"I", "N", "F", "Y", ".", "N", "S">> >>,
      << <<"I", "N", "F", "O", "S", "Y", "S">>,
         <<"I", "N", "F", "Y", ".", "N", "S">> >>,
      << <<"R", "E", "L", "I", "A", "N", "C", "E">>,
         <<"R", "E", "L", "I", "A", "N", "C", "E", ".", "N", "S">> >>,
      << <<"H", "D", "F", "C", "B", "A", "N", "K">>,
         <<"H", "D", "F", "C", "B", "A", "N", "K", ".", "N", "S">> >>,
      << <<"H", "D", "F", "C">>,
         <<"H", "D", "F", "C", "B", "A", "N", "K", ".", "N", "S">> >>,
      << <<"I", "T", "C">>,
         <<"I", "T", "C", ".", "N", "S">> >>,
      << <<"S", "B", "I", "N">>,
         <<"S", "B", "I", "N", ".", "N", "S">> >>,
      << <<"S", "B", "I">>,
         <<"S", "B", "I", "N", ".", "N", "S">> >>,
      << <<"B", "H", "A", "R", "T", "I", "A", "R", "T", "L">>,
         <<"B", "H", "A", "R", "T", "I", "A", "R", "T", "L", ".", "N", "S">> >>,
      << <<"A", "I", "R", "T", "E", "L">>,
         <<"B", "H", "A", "R", "T", "I", "A", "R", "T", "L", ".", "N", "S">> >>,
      << <<"I", "C", "I", "C", "I", "B", "A", "N", "K">>,
         <<"I", "C", "I", "C", "I", "B", "A", "N", "K", ".", "N", "S">> >>,
      << <<"I", "C", "I", "C", "I">>,
         <<"I", "C", "I", "C", "I", "B", "A", "N", "K", ".", "N", "S">> >>,
      << <<"L", "T">>,
         <<"L", "T", ".", "N", "S">> >>,
      << <<"L", "A", "R", "S", "E", "N">>,
         <<"L", "T", ".", "N", "S">> >>,
      << <<"H", "C", "L", "T", "E", "C", "H">>,
         <<"H", "C", "L", "T", "E", "C", "H", ".", "N", "S">> >>,
      << <<"H", "C", "L">>,
         <<"H", "C", "L", "T", "E", "C", "H", ".", "N", "S">> >>,
      << <<"W", "I", "P", "R", "O">>,
         <<"W", "I", "P", "R", "O", ".", "N", "S">> >>,
      << <<"O", "N", "G", "C">>,
         <<"O", "N", "G", "C", ".", "N", "S">> >>,
      << <<"N", "T", "P", "C">>,
         <<"N", "T", "P", "C", ".", "N", "S">> >>,
      << <<"P", "O", "W", "E", "R", "G", "R", "I", "D">>,
         <<"P", "O", "W", "E", "R", "G", "R", "I", "D", ".", "N", "S">> >>,
      << <<"C", "O", "A", "L", "I", "N", "D", "I", "A">>,
         <<"C", "O", "A", "L", "I", "N", "D", "I", "A", ".", "N", "S">> >>,
      << <<"M", "A", "R", "U", "T", "I">>,
         <<"M", "A", "R", "U", "T", "I", ".", "N", "S">> >>,
      << <<"B", "A", "J", "F", "I", "N", "A", "N", "C", "E">>,
         <<"B", "A", "J", "F", "I", "N", "A", "N", "C", "E", ".", "N", "S">> >>,
      << <<"B", "A", "J", "A", "J">>,
         <<"B", "A", "J", "F", "I", "N", "A", "N", "C", "E", ".", "N", "S">> >>,
      << <<"S", "U", "N", "P", "H", "A", "R", "M", "A">>,
         <<"S", "U", "N", "P", "H", "A", "R", "M", "A", ".", "N", "S">> >>,
      << <<"D", "R", "R", "E", "D", "D", "Y">>,
         <<"D", "R", "R", "E", "D", "D", "Y", ".", "N", "S">> >>,
      << <<"N", "E", "S", "T", "L", "E", "I", "N", "D">>,
         <<"N", "E", "S", "T", "L", "E", "I", "N", "D", ".", "N", "S">> >>,
      << <<"N", "E", "S", "T", "L", "E">>,
         <<"N", "E", "S", "T", "L", "E", "I", "N", "D", ".", "N", "S">> >>,
      << <<"H", "I", "N", "D", "U", "N", "I", "L", "V", "R">>,
         <<"H", "I", "N", "D", "U", "N", "I", "L", "V", "R", ".", "N", "S">> >>,
      << <<"H", "U", "L">>,
         <<"H", "I", "N", "D", "U", "N", "I", "L", "V", "R", ".", "N", "S">> >>,
      << <<"U", "L", "T", "R", "A", "C", "E", "M", "C", "O">>,
         <<"U", "L", "T", "R", "A", "C", "E", "M", "C", "O", ".", "N", "S">> >>,
      << <<"A", "D", "A", "N", "I", "P", "O", "R", "T", "S">>,
         <<"A", "D", "A", "N", "I", "P", "O", "R", "T", "S", ".", "N", "S">> >>,
      << <<"A", "D", "A", "N", "I">>,
         <<"A", "D", "A", "N", "I", "P", "O", "R", "T", "S", ".", "N", "S">> >> }

\* No upper-casing of the input.
MutGetIndianSymbolNoUpper(symbol) ==
    LET sym == Strip(symbol)
    IN  IF EndsWith(sym, DotNS) \/ EndsWith(sym, DotBO) THEN sym
        ELSE IF \E p \in indian_symbols : p[1] = sym
        THEN (CHOOSE p \in indian_symbols : p[1] = sym)[2]
        ELSE sym \o DotNS

GetIndianSymbol(symbol) ==
    LET sym == Strip(Upper(symbol))
    IN  IF EndsWith(sym, DotNS) \/ EndsWith(sym, DotBO) THEN sym
        ELSE IF \E p \in indian_symbols : p[1] = sym
        THEN (CHOOSE p \in indian_symbols : p[1] = sym)[2]
        ELSE sym \o DotNS

MaxStem == 3
MaxPad == 1

StemChars == {"H", "C", "c", "L", "T", "S"}

Stems == UNION {[1..n -> StemChars] : n \in 0..MaxStem}

Suffixes ==
    { <<>>, <<".", "N", "S">>, <<".", "n", "s">>, <<".", "B", "O">>, <<".", "b", "O">>,
      <<".", "N">>, <<".", "N", "S", "E">> }

Pads == {[i \in 1..n |-> " "] : n \in 0..MaxPad}

\* Inputs: white space, letters in either case, an exchange suffix or a part of one
SymbolInputs ==
    {l \o stem \o suffix \o r : l \in Pads, stem \in Stems, suffix \in Suffixes, r \in Pads}

InitSymbol ==
    /\ sym_input \in SymbolInputs
    /\ sym_result = <<>>
    /\ s_pc = "call"
    /\ AnalyzeIdle /\ ParseIdle /\ FetchIdle /\ OthersIdle

CallGetIndianSymbol ==
    /\ s_pc = "call"
    /\ sym_result' = GetIndianSymbol(sym_input)
    /\ s_pc' = "done"
    /\ UNCHANGED <<sym_input, analyzeVars, parseVars, fetchVars, otherVars>>

NextSymbol == CallGetIndianSymbol

SpecSymbol == InitSymbol /\ [][NextSymbol]_vars

\* The last three characters of s are a dot and the two given letters
HasExchangeSuffix(s, c1, c2) ==
    /\ Len(s) >= 3
    /\ s[Len(s) - 2] = "." /\ s[Len(s) - 1] = c1 /\ s[Len(s)] = c2

Qualified(s) == HasExchangeSuffix(s, "N", "S") \/ HasExchangeSuffix(s, "B", "O")

\* C9: get_indian_symbol returns an exchange-qualified symbol for every
\* input: the result is upper case and ends with .NS or .BO; an input that
\* ends with .NS or .BO once trimmed and upper-cased is returned in that form,
\* a key of the alias table gives its entry, anything else gets .NS appended.
C9_ExchangeQualified ==
    s_pc = "done" =>
        LET u == Strip(Upper(sym_input))
        IN  /\ Upper(sym_result) = sym_result
            /\ Qualified(sym_result)
            /\ Qualified(u) => sym_result = u
            /\ ~Qualified(u) =>
                   /\ \A p \in indian_symbols : p[1] = u => sym_result = p[2]
                   /\ (\A p \in indian_symbols : p[1] # u) => sym_result = u \o DotNS

C9_Witness ==
    /\ s_pc = "done"
    /\ sym_input = <<" ", "H", "c", "L", " ">>
    /\ sym_result = <<"H", "C", "L", "T", "E", "C", "H", ".", "N", "S">>

----------------------------------------------------------------------------
(* StockDataFetcher.get_comprehensive_data *)

\* str.replace('.NS', '.BO'): every occurrence, left to right
RECURSIVE ReplaceNS(_)
ReplaceNS(s) ==
    IF Len(s) < 3 THEN s
    ELSE IF SubSeq(s, 1, 3) = DotNS THEN DotBO \o ReplaceNS(SubSeq(s, 4, Len(s)))
    ELSE <<Head(s)>> \o ReplaceNS(Tail(s))

PriceKeys == {"currentPrice", "regularMarketPrice", "previousClose"}

\* stock.info as the set of its keys; {} is an empty or missing info
Infos ==
    { {}, {"longName"}, {"currentPrice", "longName"}, {"regularMarketPrice"},
      {"previousClose", "longName"} }

\* What reading stock.info does: it raises, or gives an info
InfoOutcomes ==
    {[raised |-> TRUE, info |-> {}]} \cup {[raised |-> FALSE, info |-> i] : i \in Infos}

\* "not info or (no price key in info)"
NoPrice(i) == i = {} \/ i \cap PriceKeys = {}

FetchSymbols ==
    { <<"T", "C", "S">>, <<"H", "c", "L">>, <<"L", "T", ".", "n", "s">>,
      <<"L", "T", ".", "B", "O">>, <<"X">> }

Lookup(sym, out) == [symbol |-> sym, raised |-> out.raised, info |-> out.info]

InitFetch ==
    /\ f_symbol \in FetchSymbols
    /\ formatted_symbol = <<>>
    /\ lookups = <<>>
    /\ info = {}
    /\ f_pc = "format"
    /\ AnalyzeIdle /\ ParseIdle /\ SymbolIdle /\ OthersIdle

\* Line 72
FormatSymbol ==
    /\ f_pc = "format"
    /\ formatted_symbol' = GetIndianSymbol(f_symbol)
    /\ f_pc' = "info"
    /\ UNCHANGED <<f_symbol, lookups, info, analyzeVars, parseVars, symbolVars, otherVars>>

\* Lines 76-92, the first stock.info: an exception is wrapped and raised again
\* (lines 91-92, 179-181); an info without a price leads to the .BO symbol
\* when the symbol ends with .NS and to the error otherwise.
FirstInfo(out) ==
    /\ f_pc = "info"
    /\ lookups' = Append(lookups, Lookup(formatted_symbol, out))
    /\ info' = out.info
    /\ IF out.raised THEN f_pc' = "error" /\ UNCHANGED formatted_symbol
       ELSE IF NoPrice(out.info)
       THEN IF EndsWith(formatted_symbol, DotNS)
            THEN formatted_symbol' = ReplaceNS(formatted_symbol) /\ f_pc' = "info_bo"
            ELSE f_pc' = "error" /\ UNCHANGED formatted_symbol
       ELSE f_pc' = "compile" /\ UNCHANGED formatted_symbol
    /\ UNCHANGED <<f_symbol, analyzeVars, parseVars, symbolVars, otherVars>>

\* Lines 85-92, stock.info of the .BO symbol
SecondInfo(out) ==
    /\ f_pc = "info_bo"
    /\ lookups' = Append(lookups, Lookup(formatted_symbol, out))
    /\ info' = out.info
    /\ f_pc' = IF out.raised \/ NoPrice(out.info) THEN "error" ELSE "compile"
    /\ UNCHANGED <<f_symbol, formatted_symbol, analyzeVars, parseVars, symbolVars, otherVars>>

\* Lines 94-181: the data is compiled and returned, or an exception of the
\* compilation is wrapped and raised.
Compile(ok) ==
    /\ f_pc = "compile"
    /\ f_pc' = IF ok THEN "returned" ELSE "error"
    /\ UNCHANGED <<f_symbol, formatted_symbol, lookups, info, analyzeVars, parseVars,
                   symbolVars, otherVars>>

NextFetch ==
    \/ FormatSymbol
    \/ \E out \in InfoOutcomes : FirstInfo(out)
    \/ \E out \in InfoOutcomes : SecondInfo(out)
    \/ \E ok \in BOOLEAN : Compile(ok)

SpecFetch == InitFetch /\ [][NextFetch]_vars

LookupsOf(suffix) == {i \in 1..Len(lookups) : EndsWith(lookups[i].symbol, suffix)}

LookupFailed(l) == l.raised \/ NoPrice(l.info)

\* C10: the NSE symbol is tried first and then the BSE symbol: when the
\* lookup of the .NS symbol failed (it raised, gave no info, or gave an info
\* without a price) and the call ended in an error, the .BO symbol was looked
\* up exactly once; and no lookup of a .BO symbol precedes one of a .NS symbol.
C10_BseFallback ==
    /\ (f_pc = "error" /\ \E i \in LookupsOf(DotNS) : LookupFailed(lookups[i]))
           => Cardinality(LookupsOf(DotBO)) = 1
    /\ \A i \in LookupsOf(DotBO) : \A j \in LookupsOf(DotNS) : j < i

(***************************************************************************)
(* utils.py: validate_stock_symbol.  A chat input is a sequence of         *)
(* lexemes: single characters, and the words "analyze", "stock" and        *)
(* "analysis" in lower or upper case.  The single letters of an input      *)
(* never spell one of these words.                                         *)
(***************************************************************************)

UpperLetters ==
    {"A", "B", "C", "D", "E", "F", "G", "H", "I", "J", "K", "L", "M",
     "N", "O", "P", "Q", "R", "S", "T", "U", "V", "W", "X", "Y", "Z"}

UpperWords == {"ANALYZE", "STOCK", "ANALYSIS"}

\* [A-Za-z] under re.IGNORECASE, and the characters of str.isalpha()
IsAlpha(c) == UpperChar(c) \in UpperLetters \cup UpperWords

\* The number of characters of a lexeme
CharLen(c) ==
    CASE UpperChar(c) = "ANALYZE" -> 7
      [] UpperChar(c) = "STOCK" -> 5
      [] UpperChar(c) = "ANALYSIS" -> 8
      [] c \in {"insight", "Insight", "concern"} -> 7
      [] c \in {"recommendation", "Recommendation"} -> 14
      [] c \in {"risk", "Risk", "sell", "Sell", "hold", "Hold"} -> 4
      [] c \in {"buy", "Buy"} -> 3
      [] c = "p60" -> 60
      [] c = "p200" -> 200
      [] OTHER -> 1

\* len()
RECURSIVE StrLen(_)
StrLen(s) == IF s = <<>> THEN 0 ELSE CharLen(Head(s)) + StrLen(Tail(s))

\* str.isalpha(): false for the empty string
IsAlphaStr(s) == s # <<>> /\ \A i \in 1..Len(s) : IsAlpha(s[i])

\* str.replace(' ', '')
RECURSIVE RemoveSpaces(_)
RemoveSpaces(s) ==
    IF s = <<>> THEN <<>>
    ELSE IF Head(s) = " " THEN RemoveSpaces(Tail(s))
    ELSE <<Head(s)>> \o RemoveSpaces(Tail(s))

\* The position after the longest run of white space starting at i (\s* and,
\* where a white space is required at i, \s+)
SpaceEnd(s, i) ==
    CHOOSE j \in i..(Len(s) + 1) :
        /\ j = Len(s) + 1 \/ ~IsSpace(s[j])
        /\ \A k \in i..(j - 1) : IsSpace(s[k])

\* The position after the longest run of letters starting at i ([A-Za-z]+ is
\* greedy)
AlphaEnd(s, i) ==
    CHOOSE j \in i..(Len(s) + 1) :
        /\ j = Len(s) + 1 \/ ~IsAlpha(s[j])
        /\ \A k \in i..(j - 1) : IsAlpha(s[k])

NoMatch == <<>>

\* The literal w of a pattern at position i, whatever the letter case
Lit(s, i, w) == i <= Len(s) /\ UpperChar(s[i]) = w

\* The group ([A-Za-z]+) at position k: a match object holding the group
Group(s, k) ==
    IF k <= Len(s) /\ IsAlpha(s[k]) THEN <<SubSeq(s, k, AlphaEnd(s, k) - 1)>>
    ELSE NoMatch

\* r'analyze\s+stock:\s*([A-Za-z]+)' matched at position i
AnalyzeStockColon(s, i) ==
    IF Lit(s, i, "ANALYZE") /\ i + 1 <= Len(s) /\ IsSpace(s[i + 1])
    THEN LET j == SpaceEnd(s, i + 1)
         IN  IF Lit(s, j, "STOCK") /\ Lit(s, j + 1, ":")
             THEN Group(s, SpaceEnd(s, j + 2))
             ELSE NoMatch
    ELSE NoMatch

\* r'analyze\s+([A-Za-z]+)' matched at position i
AnalyzeWord(s, i) ==
    IF Lit(s, i, "ANALYZE") /\ i + 1 <= Len(s) /\ IsSpace(s[i + 1])
    THEN Group(s, SpaceEnd(s, i + 1))
    ELSE NoMatch

\* r'stock:\s*([A-Za-z]+)' matched at position i
StockColon(s, i) ==
    IF Lit(s, i, "STOCK") /\ Lit(s, i + 1, ":")
    THEN Group(s, SpaceEnd(s, i + 2))
    ELSE NoMatch

\* r'^([A-Za-z]+)$': the whole input is the group
WholeWord(s, i) == IF i = 1 /\ IsAlphaStr(s) THEN <<s>> ELSE NoMatch

\* r'([A-Za-z]+)\s+' followed by the literal w, matched at position i
WordBefore(s, i, w) ==
    IF i <= Len(s) /\ IsAlpha(s[i])
    THEN LET e == AlphaEnd(s, i)
         IN  IF e <= Len(s) /\ IsSpace(s[e]) /\ Lit(s, SpaceEnd(s, e), w)
             THEN <<SubSeq(s, i, e - 1)>>
             ELSE NoMatch
    ELSE NoMatch

\* The patterns in the order of the list
NumPatterns == 6

PatternAt(p, s, i) ==
    CASE p = 1 -> AnalyzeStockColon(s, i)
      [] p = 2 -> AnalyzeWord(s, i)
      [] p = 3 -> StockColon(s, i)
      [] p = 4 -> WholeWord(s, i)
      [] p = 5 -> WordBefore(s, i, "STOCK")
      [] p = 6 -> WordBefore(s, i, "ANALYSIS")

\* re.search(pattern, cleaned_input, re.IGNORECASE): the leftmost match
Search(p, s) ==
    LET starts == {i \in 1..Len(s) : PatternAt(p, s, i) # NoMatch}
    IN  IF starts = {} THEN NoMatch
        ELSE PatternAt(p, s, CHOOSE i \in starts : \A k \in starts : i <= k)

MinSymbolLen == 2

MaxBareLen == 10

\* match.group(1).upper().strip()
SymbolOf(m) == Strip(Upper(m[1]))

\* if match: ... if len(symbol) >= 2 and symbol.isalpha()
Yields(p, s) ==
    /\ Search(p, s) # NoMatch
    /\ StrLen(SymbolOf(Search(p, s))) >= MinSymbolLen
    /\ IsAlphaStr(SymbolOf(Search(p, s)))

\* The check of the entire input after the loop
BareSymbol(s) ==
    IF IsAlphaStr(RemoveSpaces(s)) /\ StrLen(RemoveSpaces(s)) <= MaxBareLen
    THEN <<Upper(RemoveSpaces(s))>>
    ELSE None

\* The loop over the patterns from pattern p on
RECURSIVE TryPatterns(_, _)
TryPatterns(p, s) ==
    IF p > NumPatterns THEN BareSymbol(s)
    ELSE IF Yields(p, s) THEN <<SymbolOf(Search(p, s))>>
    ELSE TryPatterns(p + 1, s)

\* Variant: the loop starts at the second pattern
MutValidateFromSecond(input) ==
    IF input = <<>> THEN None ELSE TryPatterns(2, Strip(input))

\* validate_stock_symbol: None, or <<symbol>>
ValidateStockSymbol(input) ==
    IF input = <<>> THEN None ELSE TryPatterns(1, Strip(input))

\* The examples of the prompt of the chat input (app.py line 147)
AdvertisedInputs ==
    { <<"T", "C", "S">>,
      <<"I", "n", "f", "o", "s", "y", "s">>,
      <<"R", "E", "L", "I", "A", "N", "C", "E", ".", "N", "S">> }

MaxSymbolLen == 2

MaxInputLen == 3

SymbolLexemes == {"T", "c", "analyze"}

\* The alphabetic symbols S of the documented forms
FormSymbols ==
    UNION {[1..n -> SymbolLexemes] : n \in 1..MaxSymbolLen}

\* The documented forms, with the words in lower (up = FALSE) or upper case
Form(k, S, up) ==
    LET W(w) == IF up THEN UpperChar(w) ELSE w
    IN  CASE k = 1 -> <<W("analyze"), " ", W("stock"), ":", " ">> \o S
          [] k = 2 -> <<W("analyze"), " ">> \o S
          [] k = 3 -> <<W("stock"), ":", " ">> \o S
          [] k = 4 -> S
          [] k = 5 -> S \o <<" ", W("stock")>>
          [] k = 6 -> S \o <<" ", W("analysis")>>

FormInputs ==
    {Form(k, S, up) : k \in 1..NumPatterns, S \in FormSymbols, up \in BOOLEAN}

InputLexemes == {"T", "c", "1", " ", ":", ".", "analyze", "stock", "analysis"}

FreeInputs == UNION {[1..n -> InputLexemes] : n \in 0..MaxInputLen}

ChatInputs == AdvertisedInputs \cup FormInputs \cup FreeInputs

InitValidate ==
    /\ user_input \in ChatInputs
    /\ stock_symbol = None
    /\ v_pc = "call"
    /\ AnalyzeIdle /\ ParseIdle /\ SymbolIdle /\ FetchIdle /\ DataIdle /\ RatioIdle /\ GeminiIdle /\ AppIdle

\* Lines 5-35
CallValidate ==
    /\ v_pc = "call"
    /\ stock_symbol' = ValidateStockSymbol(user_input)
    /\ v_pc' = "done"
    /\ UNCHANGED <<user_input, analyzeVars, parseVars, symbolVars, fetchVars, dataVars, ratioVars, geminiVars, appVars>>

NextValidate == CallValidate

SpecValidate == InitValidate /\ [][NextValidate]_vars

\* C11: every input form that the prompt of the chat input advertises
\* ('TCS', 'Infosys', 'RELIANCE.NS') is accepted by validate_stock_symbol:
\* the result is a symbol, not None.
C11_AdvertisedAccepted ==
    (v_pc = "done" /\ user_input \in AdvertisedInputs) => stock_symbol # None

C11_Rejected ==
    /\ v_pc = "done"
    /\ user_input = <<"R", "E", "L", "I", "A", "N", "C", "E", ".", "N", "S">>
    /\ stock_symbol = None

\* The result is decided by the first pattern of the list, in its order, that
\* yields a valid symbol
FirstYieldDecides ==
    \A p \in 1..NumPatterns :
        (Yields(p, Strip(user_input)) /\ \A q \in 1..(p - 1) : ~Yields(q, Strip(user_input)))
            => stock_symbol = <<SymbolOf(Search(p, Strip(user_input)))>>

\* S ends with the word "analyze", in any letter case
EndsWithAnalyze(S) == UpperChar(S[Len(S)]) = "ANALYZE"

\* C12 as stated: for each documented form ('analyze stock: S', 'analyze S',
\* 'stock: S', 'S', 'S stock', 'S analysis', in any letter case) and every
\* alphabetic S of at least two letters, the result is S in upper case; the
\* patterns are tried in the documented order and the first one that yields
\* a valid symbol decides.
C12_FormsYieldSymbol ==
    v_pc = "done" =>
        /\ \A k \in 1..NumPatterns, S \in FormSymbols, up \in BOOLEAN :
               (user_input = Form(k, S, up) /\ StrLen(S) >= MinSymbolLen)
                   => stock_symbol = <<Upper(S)>>
        /\ FirstYieldDecides

\* C12 amended: the same, except that for the forms 'S stock' and
\* 'S analysis' with an S that ends with "analyze" the earlier pattern
\* 'analyze\s+([A-Za-z]+)' decides, and the result is STOCK or ANALYSIS.
C12_FormsYieldSymbolUnlessEarlier ==
    v_pc = "done" =>
        /\ \A k \in 1..NumPatterns, S \in FormSymbols, up \in BOOLEAN :
               (user_input = Form(k, S, up) /\ StrLen(S) >= MinSymbolLen)
                   => stock_symbol =
                          IF k = 5 /\ EndsWithAnalyze(S) THEN << <<"STOCK">> >>
                          ELSE IF k = 6 /\ EndsWithAnalyze(S) THEN << <<"ANALYSIS">> >>
                          ELSE <<Upper(S)>>
        /\ FirstYieldDecides

C12_Witness ==
    /\ v_pc = "done"
    /\ user_input = <<"ANALYZE", " ", "STOCK", ":", " ", "T", "c">>
    /\ stock_symbol = << <<"T", "C">> >>

(***************************************************************************)
(* utils.py: validate_financial_data.  The data is a dict: a function from *)
(* the keys it holds to their values.                                      *)
(***************************************************************************)

required_fields == <<"symbol", "company_name", "current_price">>

DataKeys == {"symbol", "company_name", "current_price", "sector"}

\* None, a falsy value that is not None, and another value
FieldValues == {None, <<0>>, <<1>>}

Datas == UNION {[K -> FieldValues] : K \in SUBSET DataKeys}

MissingPrefix == "Missing required field: "

ValidationPassed == <<TRUE, <<"Data validation passed">>>>

\* if field not in data or data[field] is None
FieldMissing(d, field) == field \notin DOMAIN d \/ d[field] = None

\* Variant: a falsy value counts as missing
MutValidateFalsy(d, i) ==
    LET Falsy(field) == field \notin DOMAIN d \/ ~Truthy(d[field])
    IN  IF \E k \in i..Len(required_fields) : Falsy(required_fields[k])
        THEN <<FALSE, <<MissingPrefix,
                        required_fields[CHOOSE k \in i..Len(required_fields) :
                            /\ Falsy(required_fields[k])
                            /\ \A j \in i..(k - 1) : ~Falsy(required_fields[j])]>>>>
        ELSE ValidationPassed

\* The loop of lines 110-112 from field i on, and line 114
RECURSIVE CheckFields(_, _)
CheckFields(d, i) ==
    IF i > Len(required_fields) THEN ValidationPassed
    ELSE IF FieldMissing(d, required_fields[i])
         THEN <<FALSE, <<MissingPrefix, required_fields[i]>>>>
    ELSE CheckFields(d, i + 1)

\* validate_financial_data: the pair (valid, message)
ValidateFinancialData(d) == CheckFields(d, 1)

InitData ==
    /\ data \in Datas
    /\ validation = <<>>
    /\ d_pc = "call"
    /\ AnalyzeIdle /\ ParseIdle /\ SymbolIdle /\ FetchIdle /\ ValidateIdle /\ RatioIdle /\ GeminiIdle /\ AppIdle

\* Lines 106-114: the function reads data and assigns nothing to it
CallValidateData ==
    /\ d_pc = "call"
    /\ validation' = ValidateFinancialData(data)
    /\ d_pc' = "done"
    /\ UNCHANGED <<data, analyzeVars, parseVars, symbolVars, fetchVars, validateVars, ratioVars, geminiVars, appVars>>

NextData == CallValidateData

SpecData == InitData /\ [][NextData]_vars

Present(field) == field \in DOMAIN data /\ data[field] # None

\* C16: validate_financial_data returns (True, 'Data validation passed')
\* exactly when symbol, company_name and current_price are all present with
\* a value that is not None; otherwise it returns False with a message that
\* names the first missing field in that order; it never modifies the data.
C16_RequiredFields ==
    /\ [](d_pc = "done" =>
            /\ validation = ValidationPassed
                   <=> \A i \in 1..Len(required_fields) : Present(required_fields[i])
            /\ \/ validation = ValidationPassed
               \/ \E i \in 1..Len(required_fields) :
                      /\ ~Present(required_fields[i])
                      /\ \A j \in 1..(i - 1) : Present(required_fields[j])
                      /\ validation = <<FALSE, <<MissingPrefix, required_fields[i]>>>>)
    /\ [][data' = data]_vars

C16_Witness ==
    /\ d_pc = "done"
    /\ data = [symbol |-> <<1>>, company_name |-> None, sector |-> <<1>>]
    /\ validation = <<FALSE, <<MissingPrefix, "company_name">>>>

(***************************************************************************)
(* Percentage metrics: from the provider's info (stock_data.py lines       *)
(* 139-152 and 274-286) to the Quick Financial Analysis of app.py (lines   *)
(* 380-417).  A number is an integer count of ten-thousandths, so that the *)
(* fraction 0.25 is 2500 and the percentage 25.0 is 250000.                *)
(***************************************************************************)

Percent == 100

\* The key of info each percentage metric of stock_data is read from
InfoKey ==
    [roe |-> "returnOnEquity", roce |-> "returnOnAssets",
     dividend_yield |-> "dividendYield", profit_margins |-> "profitMargins",
     operating_margins |-> "operatingMargins", revenue_growth |-> "revenueGrowth",
     earnings_growth |-> "earningsGrowth"]

PercentMetrics == DOMAIN InfoKey

InfoKeys == {InfoKey[m] : m \in PercentMetrics} \cup {"debtToEquity"}

\* Absent (None), zero, and the fraction 0.25
Fractions == {None, <<0>>, <<2500>>}

RatioInfos == [InfoKeys -> Fractions]

\* info.get(key) * 100 if info.get(key) else None
ToPercent(v) == IF Truthy(v) THEN <<v[1] * Percent>> ELSE None

\* What st.metric shows
Num(n) == [kind |-> "number", num |-> n, text |-> ""]
Text(t) == [kind |-> "text", num |-> 0, text |-> t]
NotRendered == [kind |-> "none", num |-> 0, text |-> ""]

\* The labels of lines 380-417 in the order of the code
QuickLabels ==
    <<"ROE (%)", "PAT Margin (%)", "ROCE (%)", "Earnings growth (%)",
      "Debt/Equity", "Net Sales Growth (%)", "Net margin (%)">>

\* The hard-coded values of lines 384, 398 and 416: 7.0156, -24.0492, 9.7629
DefaultPatMargin == 70156
DefaultEarningsGrowth == -240492
DefaultNetMargin == 97629

\* Lines 381-417: the value of each metric, or "raises" where the format of
\* None raises TypeError (line 406)
QuickValue(sd, label) ==
    CASE label = "ROE (%)" ->
             IF Truthy(sd.roe) THEN Num(sd.roe[1]) ELSE Text("N/A")
      [] label = "PAT Margin (%)" ->
             IF Truthy(sd.profit_margins) THEN Num(sd.profit_margins[1] * Percent)
             ELSE Num(DefaultPatMargin)
      [] label = "ROCE (%)" ->
             IF Truthy(sd.roce) THEN Num(sd.roce[1]) ELSE Text("21.5676")
      [] label = "Earnings growth (%)" ->
             IF Truthy(sd.earnings_growth) THEN Num(sd.earnings_growth[1] * Percent)
             ELSE Num(DefaultEarningsGrowth)
      [] label = "Debt/Equity" ->
             IF sd.debt_to_equity = None THEN Text("raises")
             ELSE Num(sd.debt_to_equity[1])
      [] label = "Net Sales Growth (%)" ->
             IF Truthy(sd.revenue_growth) THEN Num(sd.revenue_growth[1])
             ELSE Text("-6.3798")
      [] label = "Net margin (%)" ->
             IF Truthy(sd.profit_margins) THEN Num(sd.profit_margins[1] * Percent)
             ELSE Num(DefaultNetMargin)

\* The metrics are rendered in order until one raises
Raises(sd, i) == QuickValue(sd, QuickLabels[i]) = Text("raises")

QuickAnalysis(sd) ==
    [i \in 1..Len(QuickLabels) |->
        IF \E j \in 1..i : Raises(sd, j) THEN NotRendered
        ELSE QuickValue(sd, QuickLabels[i])]

InitRatio ==
    /\ r_info \in RatioInfos
    /\ r_data = <<>>
    /\ shown = <<>>
    /\ r_pc = "compile"
    /\ AnalyzeIdle /\ ParseIdle /\ SymbolIdle /\ FetchIdle /\ ValidateIdle /\ DataIdle /\ GeminiIdle /\ AppIdle

\* stock_data.py lines 139-152, 274-286
CompilePercent ==
    /\ r_pc = "compile"
    /\ r_data' = [m \in PercentMetrics \cup {"debt_to_equity"} |->
                     IF m = "debt_to_equity" THEN r_info["debtToEquity"]
                     ELSE ToPercent(r_info[InfoKey[m]])]
    /\ r_pc' = "display"
    /\ UNCHANGED <<r_info, shown, analyzeVars, parseVars, symbolVars, fetchVars,
                   validateVars, dataVars, geminiVars, appVars>>

\* app.py lines 380-417
DisplayQuick ==
    /\ r_pc = "display"
    /\ shown' = QuickAnalysis(r_data)
    /\ r_pc' = IF \E i \in 1..Len(QuickLabels) : Raises(r_data, i)
               THEN "raised" ELSE "displayed"
    /\ UNCHANGED <<r_info, r_data, analyzeVars, parseVars, symbolVars, fetchVars,
                   validateVars, dataVars, geminiVars, appVars>>

NextRatio == CompilePercent \/ DisplayQuick

SpecRatio == InitRatio /\ [][NextRatio]_vars

\* The metric of stock_data each label of the Quick Financial Analysis shows
MetricOf ==
    [i \in {1, 2, 3, 4, 6, 7} |->
        CASE i = 1 -> "roe"
          [] i = 2 -> "profit_margins"
          [] i = 3 -> "roce"
          [] i = 4 -> "earnings_growth"
          [] i = 6 -> "revenue_growth"
          [] i = 7 -> "profit_margins"]

\* C14: every percentage metric is the fraction of the provider's info
\* multiplied by 100 exactly once between the info and the value displayed:
\* the stock data holds the fraction times 100, and every number displayed
\* for a fraction that the provider supplied is that fraction times 100.
C14_ScaledOnce ==
    /\ r_pc \in {"display", "displayed", "raised"} =>
           \A m \in PercentMetrics :
               Truthy(r_info[InfoKey[m]])
                   => r_data[m] = <<r_info[InfoKey[m]][1] * Percent>>
    /\ r_pc \in {"displayed", "raised"} =>
           \A i \in DOMAIN MetricOf :
               (Truthy(r_info[InfoKey[MetricOf[i]]]) /\ shown[i].kind = "number")
                   => shown[i].num = r_info[InfoKey[MetricOf[i]]][1] * Percent

(***************************************************************************)
(* gemini_analysis.py: GeminiStockAnalyzer.generate_stock_insights.  The   *)
(* response text is one sequence of lexemes with "\n" between its lines;   *)
(* the words the parser looks for are one lexeme each, "p60" and "p200"    *)
(* are runs of 60 and of 200 characters of prose without such a word.      *)
(***************************************************************************)

\* str.lower()
LowerChar(c) ==
    CASE c = "Insight" -> "insight"
      [] c = "Recommendation" -> "recommendation"
      [] c = "Risk" -> "risk"
      [] c = "Buy" -> "buy"
      [] c = "Sell" -> "sell"
      [] c = "Hold" -> "hold"
      [] OTHER -> c

Lower(s) == [i \in 1..Len(s) |-> LowerChar(s[i])]

\* word in line.lower()
InLower(line, words) == \E w \in words : Contains(Lower(line), w)

\* str.split('\n')
RECURSIVE SplitLines(_)
SplitLines(s) ==
    IF ~Contains(s, "\n") THEN <<s>>
    ELSE LET i == CHOOSE k \in 1..Len(s) :
                      s[k] = "\n" /\ \A j \in 1..(k - 1) : s[j] # "\n"
         IN  <<SubSeq(s, 1, i - 1)>> \o SplitLines(SubSeq(s, i + 1, Len(s)))

\* The separator '. ' at position k
SeparatorAt(s, k) == k < Len(s) /\ s[k] = "." /\ s[k + 1] = " "

\* str.split('. ')
RECURSIVE SplitSentences(_)
SplitSentences(s) ==
    IF \A k \in 1..Len(s) : ~SeparatorAt(s, k) THEN <<s>>
    ELSE LET i == CHOOSE k \in 1..Len(s) :
                      SeparatorAt(s, k) /\ \A j \in 1..(k - 1) : ~SeparatorAt(s, j)
         IN  <<SubSeq(s, 1, i - 1)>> \o SplitSentences(SubSeq(s, i + 2, Len(s)))

\* line.lstrip('- •*')
RECURSIVE LStripBullets(_)
LStripBullets(s) ==
    IF s = <<>> THEN s
    ELSE IF Head(s) \in {"-", " ", "U+2022", "*"} THEN LStripBullets(Tail(s)) ELSE s

MaxGeminiInsights == 5
MaxGeminiRisks == 3
MinParsedInsights == 3
MinSentenceLen == 50
MaxSentenceLen == 200

\* The recommendation a line of the recommendation section gives
Recommend(line, recommendation) ==
    IF InLower(line, {"buy"}) THEN "Buy"
    ELSE IF InLower(line, {"sell"}) THEN "Sell"
    ELSE IF InLower(line, {"hold"}) THEN "Hold"
    ELSE recommendation

\* One iteration of the loop of lines 96-122;
\* st = [section, insights, recommendation, risks]
GeminiLine(st, raw) ==
    LET line == Strip(raw)
    IN  IF line = <<>> THEN st
        ELSE IF InLower(line, {"insight", "key point"})
        THEN [st EXCEPT !.section = "insights"]
        ELSE IF InLower(line, {"recommendation", "invest"})
        THEN [st EXCEPT !.section = "recommendation"]
        ELSE IF InLower(line, {"risk", "concern"})
        THEN [st EXCEPT !.section = "risks"]
        ELSE IF Head(line) \in Markers
        THEN IF st.section = "insights" /\ Len(st.insights) < MaxGeminiInsights
             THEN [st EXCEPT !.insights = Append(@, Strip(LStripBullets(line)))]
             ELSE IF st.section = "risks" /\ Len(st.risks) < MaxGeminiRisks
             THEN [st EXCEPT !.risks = Append(@, Strip(LStripBullets(line)))]
             ELSE st
        ELSE IF st.section = "recommendation"
        THEN [st EXCEPT !.recommendation = Recommend(line, @)]
        ELSE st

RECURSIVE GeminiLines(_, _)
GeminiLines(st, lines) ==
    IF lines = <<>> THEN st
    ELSE GeminiLines(GeminiLine(st, Head(lines)), Tail(lines))

\* The loop of lines 128-132 over the sentences, from the insights so far
RECURSIVE KeySentences(_, _)
KeySentences(insights, sentences) ==
    IF sentences = <<>> THEN insights
    ELSE IF StrLen(Head(sentences)) > MinSentenceLen
            /\ StrLen(Head(sentences)) < MaxSentenceLen
         THEN IF Len(insights) + 1 >= MaxGeminiInsights
              THEN Append(insights, Strip(Head(sentences)))
              ELSE KeySentences(Append(insights, Strip(Head(sentences))), Tail(sentences))
    ELSE KeySentences(insights, Tail(sentences))

\* _get_fallback_analysis
FallbackAnalysis ==
    [insights |-> << <<"Financial data analysis completed">>,
                     <<"Stock performance metrics calculated">>,
                     <<"Market position evaluated">> >>,
     recommendation |-> "Hold",
     risks |-> << <<"Market volatility risk">> >>,
     analysis_text |->
         <<"AI analysis temporarily unavailable. Please check the financial metrics above for detailed information.">>]

\* _parse_gemini_response, for a response text that is a str
ParseGeminiResponse(response_text) ==
    LET st == GeminiLines([section |-> "none", insights |-> <<>>,
                           recommendation |-> "Hold", risks |-> <<>>],
                          SplitLines(Strip(response_text)))
        insights == IF Len(st.insights) < MinParsedInsights
                    THEN KeySentences(<<>>, SplitSentences(response_text))
                    ELSE st.insights
    IN  [insights |-> IF insights # <<>> THEN Take(insights, MaxGeminiInsights)
                      ELSE << <<"Analysis completed successfully">> >>,
         recommendation |-> st.recommendation,
         risks |-> IF st.risks # <<>> THEN Take(st.risks, MaxGeminiRisks)
                   ELSE << <<"Market volatility risk">> >>,
         analysis_text |-> response_text]

\* The keys of stock_data that _prepare_stock_summary formats with a format
\* specification (lines 57, 58, 75, 76): formatting None raises TypeError
FormattedKeys == {"current_price", "market_cap", "fifty_two_week_high", "fifty_two_week_low"}

GeminiStocks ==
    {[k \in FormattedKeys |-> <<1>>], <<>>}
        \cup {[k \in FormattedKeys |-> IF k = n THEN None ELSE <<1>>] : n \in FormattedKeys}

\* _prepare_stock_summary raises
SummaryRaises(sd) == \E k \in DOMAIN sd : sd[k] = None

MaxSectionLines == 7
MaxMixedLines == 2
MaxSentences == 6

\* "\n".join(lines)
RECURSIVE JoinWith(_, _)
JoinWith(parts, sep) ==
    IF parts = <<>> THEN <<>>
    ELSE IF Len(parts) = 1 THEN parts[1]
    ELSE parts[1] \o sep \o JoinWith(Tail(parts), sep)

SectionLines ==
    { <<"Insight", "s", ":">>, <<"risk", "s">>, <<"-", " ", "a">> }

MixedLines ==
    { <<"Insight">>, <<"Recommendation", ":">>, <<"concern">>,
      <<"*", " ", "buy">>, <<"Buy">>, <<"a", " ", "Sell">>, <<"hold">>,
      <<" ", "U+2022", "-", "a", " ">>, <<"p60", ".", " ">>, <<"p200">>, <<>> }

SentenceBodies == { <<"p60">>, <<"a">>, <<"\n", "p60", "a", " ">> }

GeminiTexts ==
    {JoinWith(ls, <<"\n">>) :
        ls \in UNION {[1..n -> SectionLines] : n \in 0..MaxSectionLines}}
    \cup {JoinWith(ls, <<"\n">>) :
        ls \in UNION {[1..n -> MixedLines] : n \in 0..MaxMixedLines}}
    \cup {JoinWith(ss, <<".", " ">>) :
        ss \in UNION {[1..n -> SentenceBodies] : n \in 0..MaxSentences}}

NoResponse == [raised |-> FALSE, text |-> <<>>]

\* What client.models.generate_content does: it raises, or the response has
\* a text
GeminiOutcomes ==
    {[raised |-> TRUE, text |-> <<>>]} \cup {[raised |-> FALSE, text |-> t] : t \in GeminiTexts}

NoAnalysis ==
    [insights |-> <<>>, recommendation |-> "", risks |-> <<>>, analysis_text |-> <<>>]

InitGemini ==
    /\ g_stock \in GeminiStocks
    /\ g_response = NoResponse
    /\ g_result = NoAnalysis
    /\ g_pc = "summary"
    /\ AnalyzeIdle /\ ParseIdle /\ SymbolIdle /\ FetchIdle /\ ValidateIdle /\ DataIdle /\ RatioIdle /\ AppIdle

\* Lines 16-33, 45-47: the summary and the prompt are built; an exception is
\* caught and the fallback analysis returned
PrepareSummary ==
    /\ g_pc = "summary"
    /\ IF SummaryRaises(g_stock)
       THEN g_result' = FallbackAnalysis /\ g_pc' = "done"
       ELSE g_result' = g_result /\ g_pc' = "generate"
    /\ UNCHANGED <<g_stock, g_response, analyzeVars, parseVars, symbolVars, fetchVars,
                   validateVars, dataVars, ratioVars, appVars>>

\* Variant: an empty response text is parsed like any other
MutGenerateContentParseEmpty(out) ==
    /\ g_pc = "generate"
    /\ g_response' = out
    /\ g_result' = IF out.raised THEN FallbackAnalysis ELSE ParseGeminiResponse(out.text)
    /\ g_pc' = "done"
    /\ UNCHANGED <<g_stock, analyzeVars, parseVars, symbolVars, fetchVars,
                   validateVars, dataVars, ratioVars, appVars>>

\* Lines 35-47: the request, and the parsed response or the fallback
GenerateContent(out) ==
    /\ g_pc = "generate"
    /\ g_response' = out
    /\ g_result' = IF out.raised \/ out.text = <<>> THEN FallbackAnalysis
                   ELSE ParseGeminiResponse(out.text)
    /\ g_pc' = "done"
    /\ UNCHANGED <<g_stock, analyzeVars, parseVars, symbolVars, fetchVars,
                   validateVars, dataVars, ratioVars, appVars>>

NextGemini == PrepareSummary \/ \E out \in GeminiOutcomes : GenerateContent(out)

SpecGemini == InitGemini /\ [][NextGemini]_vars

Recommendations == {"Buy", "Hold", "Sell"}

\* C15: generate_stock_insights never raises and always returns a dict with
\* the keys insights (1 to 5 entries), recommendation (Buy, Hold or Sell),
\* risks (1 to 3 entries) and analysis_text; when the prompt building raises,
\* the Gemini call raises or the response text is empty, the result is
\* exactly the fixed fallback analysis, whose recommendation is Hold.
C15_AlwaysAnalysis ==
    /\ g_pc \in {"idle", "summary", "generate", "done"}
    /\ g_pc = "done" =>
        /\ DOMAIN g_result = {"insights", "recommendation", "risks", "analysis_text"}
        /\ Len(g_result.insights) \in 1..MaxGeminiInsights
        /\ g_result.recommendation \in Recommendations
        /\ Len(g_result.risks) \in 1..MaxGeminiRisks
        /\ (SummaryRaises(g_stock) \/ g_response.raised \/ g_response.text = <<>>)
               => (g_result = FallbackAnalysis /\ g_result.recommendation = "Hold")

C15_Witness ==
    /\ g_pc = "done"
    /\ ~SummaryRaises(g_stock)
    /\ g_response.text =
           JoinWith([i \in 1..7 |-> IF i = 1 THEN <<"Insight", "s", ":">> ELSE <<"-", " ", "a">>],
                    <<"\n">>)
    /\ g_result.insights = [i \in 1..5 |-> <<"a">>]

(***************************************************************************)
(* app.py: one session.  Every script run is one action: the run that a    *)
(* chat input, a quick button or the Clear button triggers, and the run    *)
(* without a widget event (the first load, and the one st.rerun() asks     *)
(* for).  A request either fails in get_comprehensive_data, or fails in    *)
(* analyze_stock (ReturnBasic: a metric that is no number, the providers   *)
(* exhausted), or completes.                                               *)
(***************************************************************************)

MaxRequests == 3

\* Line 136
popular_stocks ==
    << <<"T", "C", "S">>, <<"I", "N", "F", "Y">>,
       <<"R", "E", "L", "I", "A", "N", "C", "E">>,
       <<"H", "D", "F", "C", "B", "A", "N", "K">>,
       <<"I", "C", "I", "C", "I", "B", "A", "N", "K">> >>

\* What the user types into the chat input
TypedInputs ==
    { <<"T", "C", "S">>,
      <<"R", "E", "L", "I", "A", "N", "C", "E", ".", "N", "S">>,
      <<"analyze", " ", "i", "n", "f", "y">> }

\* The inputs a run can receive: a typed text or the text of a quick button
\* (lines 138-152)
AppInputs == TypedInputs \cup {popular_stocks[i] : i \in 1..Len(popular_stocks)}

\* Line 160: validate_stock_symbol(user_input) for each of these inputs
Validated == [input \in AppInputs |-> ValidateStockSymbol(input)]

\* What the try block of lines 166-186 does
RequestOutcomes == {"fetch_raised", "analysis_raised", "complete"}

\* An entry of chat_history: {"role": ..., "content": ...}; the content is
\* one of the five texts of lines 157-192 (kind) with the text put into it
\* and, for an error, the function that raised
Message(role, kind, text, error) ==
    [role |-> role, kind |-> kind, text |-> text, error |-> error]

\* The dict get_comprehensive_data returns for the request req
StockDataOf(req, symbol) == <<[req |-> req, symbol |-> GetIndianSymbol(symbol)]>>

\* The dict analyze_stock returns for a stock data
AnalysisOf(sd) == <<[req |-> sd[1].req]>>

\* st.session_state.chat_history[-1] = message
ReplaceLast(history, message) == [history EXCEPT ![Len(history)] = message]

Session(history, sd, an) ==
    [chat_history |-> history, current_stock_data |-> sd, current_analysis |-> an]

\* Variant: the reply to an invalid input is not added, and the message of
\* an error is added after the processing message
MutAnswerAppends(s, input, symbol, outcome, req) ==
    LET h1 == Append(s.chat_history, Message("user", "input", input, ""))
    IN  IF symbol # None
        THEN LET h2 == Append(h1, Message("assistant", "analyzing", symbol[1], ""))
                 sd == StockDataOf(req, symbol[1])
             IN  CASE outcome = "fetch_raised" ->
                          Session(Append(h2, Message("assistant", "error", symbol[1], "fetch")),
                                  s.current_stock_data, s.current_analysis)
                   [] outcome = "analysis_raised" ->
                          Session(Append(h2, Message("assistant", "error", symbol[1], "analysis")),
                                  sd, s.current_analysis)
                   [] outcome = "complete" ->
                          Session(ReplaceLast(h2, Message("assistant", "complete", symbol[1], "")),
                                  sd, AnalysisOf(sd))
        ELSE Session(h1, s.current_stock_data, s.current_analysis)

\* Variant of Process: the replies are those of MutAnswerAppends
MutProcessAppends(s, input, outcome, req) ==
    MutAnswerAppends(s, input, Validated[input], outcome, req)

\* Variant: a request that fails in get_comprehensive_data drops the analysis
\* on display
MutAnswerDropsOnError(s, input, symbol, outcome, req) ==
    LET h1 == Append(s.chat_history, Message("user", "input", input, ""))
    IN  IF symbol # None
        THEN LET h2 == Append(h1, Message("assistant", "analyzing", symbol[1], ""))
                 sd == StockDataOf(req, symbol[1])
             IN  CASE outcome = "fetch_raised" ->
                          Session(ReplaceLast(h2, Message("assistant", "error", symbol[1], "fetch")),
                                  None, None)
                   [] outcome = "analysis_raised" ->
                          Session(ReplaceLast(h2, Message("assistant", "error", symbol[1], "analysis")),
                                  sd, s.current_analysis)
                   [] outcome = "complete" ->
                          Session(ReplaceLast(h2, Message("assistant", "complete", symbol[1], "")),
                                  sd, AnalysisOf(sd))
        ELSE Session(Append(h1, Message("assistant", "invalid", <<>>, "")),
                     s.current_stock_data, s.current_analysis)

\* Variant of Process: the replies are those of MutAnswerDropsOnError
MutProcessDropsOnError(s, input, outcome, req) ==
    MutAnswerDropsOnError(s, input, Validated[input], outcome, req)

\* Lines 157-192: the session after a non-empty input for which
\* validate_stock_symbol returned symbol.  Line 169 stores the stock data
\* before analyze_stock is called at line 172.
Answer(s, input, symbol, outcome, req) ==
    LET h1 == Append(s.chat_history, Message("user", "input", input, ""))
    IN  IF symbol # None
        THEN LET h2 == Append(h1, Message("assistant", "analyzing", symbol[1], ""))
                 sd == StockDataOf(req, symbol[1])
             IN  CASE outcome = "fetch_raised" ->
                          Session(ReplaceLast(h2, Message("assistant", "error", symbol[1], "fetch")),
                                  s.current_stock_data, s.current_analysis)
                   [] outcome = "analysis_raised" ->
                          Session(ReplaceLast(h2, Message("assistant", "error", symbol[1], "analysis")),
                                  sd, s.current_analysis)
                   [] outcome = "complete" ->
                          Session(ReplaceLast(h2, Message("assistant", "complete", symbol[1], "")),
                                  sd, AnalysisOf(sd))
        ELSE Session(Append(h1, Message("assistant", "invalid", <<>>, "")),
                     s.current_stock_data, s.current_analysis)

\* Lines 155-192 for the input the user gave: line 160 validates it
Process(s, input, outcome, req) ==
    Answer(s, input, Validated[input], outcome, req)

\* Lines 204 and 726: the views a run renders that reaches the end of the
\* script
Views(sd, an) ==
    (IF sd # None /\ an # None THEN {"analysis"} ELSE {})
        \cup (IF sd = None THEN {"placeholder"} ELSE {})

InitApp ==
    /\ chat_history = <<>>
    /\ current_stock_data = None
    /\ current_analysis = None
    /\ rendered = {}
    /\ app_pc = "scheduled"
    /\ requests = 0
    /\ AnalyzeIdle /\ ParseIdle /\ SymbolIdle /\ FetchIdle /\ ValidateIdle /\ DataIdle /\ RatioIdle /\ GeminiIdle

\* A run without a widget event: the first load, or the run st.rerun() asked
\* for
RunScript ==
    /\ app_pc = "scheduled"
    /\ rendered' = Views(current_stock_data, current_analysis)
    /\ app_pc' = "shown"
    /\ UNCHANGED <<chat_history, current_stock_data, current_analysis, requests,
                   analyzeVars, parseVars, symbolVars, fetchVars,
                   validateVars, dataVars, ratioVars, geminiVars>>

\* The run of a non-empty user_input (lines 147-192), then the display
RunInput(input, outcome) ==
    /\ app_pc = "shown"
    /\ requests < MaxRequests
    /\ requests' = requests + 1
    /\ LET s == Process(Session(chat_history, current_stock_data, current_analysis),
                        input, outcome, requests + 1)
       IN  /\ chat_history' = s.chat_history
           /\ current_stock_data' = s.current_stock_data
           /\ current_analysis' = s.current_analysis
           /\ rendered' = Views(s.current_stock_data, s.current_analysis)
    /\ app_pc' = "shown"
    /\ UNCHANGED <<analyzeVars, parseVars, symbolVars, fetchVars,
                   validateVars, dataVars, ratioVars, geminiVars>>

\* The user submits a text in the chat input (line 147)
SubmitInput(input, outcome) == RunInput(input, outcome)

\* The user clicks the quick button of popular_stocks[i] (lines 138-152)
ClickQuick(i, outcome) == RunInput(popular_stocks[i], outcome)

\* Variant: the Clear button resets the two analysis fields and leaves the
\* chat history
MutClickClearKeepsHistory ==
    /\ app_pc = "shown"
    /\ "analysis" \in rendered
    /\ current_stock_data' = None
    /\ current_analysis' = None
    /\ rendered' = {"analysis"}
    /\ app_pc' = "scheduled"
    /\ UNCHANGED <<chat_history, requests, analyzeVars, parseVars, symbolVars, fetchVars,
                   validateVars, dataVars, ratioVars, geminiVars>>

\* The user clicks the Clear button, which the analysis view holds: the run
\* renders the analysis view up to the button, resets the session and stops
\* at st.rerun() (lines 204-723)
ClickClear ==
    /\ app_pc = "shown"
    /\ "analysis" \in rendered
    /\ chat_history' = <<>>
    /\ current_stock_data' = None
    /\ current_analysis' = None
    /\ rendered' = {"analysis"}
    /\ app_pc' = "scheduled"
    /\ UNCHANGED <<requests, analyzeVars, parseVars, symbolVars, fetchVars,
                   validateVars, dataVars, ratioVars, geminiVars>>

NextApp ==
    \/ RunScript
    \/ \E input \in TypedInputs, outcome \in RequestOutcomes : SubmitInput(input, outcome)
    \/ \E i \in 1..Len(popular_stocks), outcome \in RequestOutcomes : ClickQuick(i, outcome)
    \/ ClickClear

SpecApp == InitApp /\ [][NextApp]_vars

\* C13: every script run renders exactly one of the analysis view and the
\* "What You'll Get" placeholder: the analysis view when stock data is
\* present at that point of the run, the placeholder when it is not.  (The
\* run of a Clear click renders the analysis view, resets the session and
\* stops; the run it asks for renders the placeholder.)
C13_OneView ==
    /\ rendered = {} => (app_pc = "scheduled" /\ chat_history = <<>> /\ requests = 0)
    /\ rendered # {} =>
        /\ rendered \in {{"analysis"}, {"placeholder"}}
        /\ app_pc = "shown" => (rendered = {"analysis"} <=> current_stock_data # None)
        /\ app_pc = "scheduled" =>
               (rendered = {"analysis"} /\ current_stock_data = None)

\* The reply at position i answers the input before it
Answers(i) ==
    LET symbol == Validated[chat_history[i - 1].text]
    IN  /\ chat_history[i].role = "assistant"
        /\ IF symbol = None THEN chat_history[i].kind = "invalid"
           ELSE /\ chat_history[i].kind \in {"complete", "error"}
                /\ chat_history[i].text = symbol[1]

\* C18: chat_history alternates user and assistant messages, starting with a
\* user message: every submitted input adds exactly one user message followed
\* by exactly one assistant message, and the transient 'Analyzing ...'
\* message never remains in the history at the end of a run.
C18_AlternatingHistory ==
    /\ [](/\ Len(chat_history) % 2 = 0
          /\ \A i \in 1..Len(chat_history) :
                 /\ chat_history[i].kind # "analyzing"
                 /\ IF i % 2 = 1
                    THEN chat_history[i].role = "user" /\ chat_history[i].kind = "input"
                    ELSE Answers(i))
    /\ [][requests' # requests =>
            /\ Len(chat_history') = Len(chat_history) + 2
            /\ SubSeq(chat_history', 1, Len(chat_history)) = chat_history
            /\ chat_history'[Len(chat_history) + 1].role = "user"
            /\ chat_history'[Len(chat_history) + 2].role = "assistant"]_vars

C18_Witness ==
    /\ Len(chat_history) = 6
    /\ chat_history[2].kind = "complete"
    /\ chat_history[4].kind = "invalid"
    /\ chat_history[6].kind = "error"

\* The last message says that the input was rejected or that
\* get_comprehensive_data raised
NotFetched(history) ==
    \/ history[Len(history)].kind = "invalid"
    \/ history[Len(history)].kind = "error" /\ history[Len(history)].error = "fetch"

\* C19: a run whose input validate_stock_symbol rejects, or for which
\* get_comprehensive_data raises, leaves current_stock_data and
\* current_analysis as they were: only chat_history changes, by the input and
\* the reply.
C19_FailedRequestKeepsAnalysis ==
    [][(Len(chat_history') = Len(chat_history) + 2 /\ NotFetched(chat_history'))
           => /\ current_stock_data' = current_stock_data
              /\ current_analysis' = current_analysis
              /\ chat_history' # chat_history]_vars

C19_Witness ==
    /\ requests = 3
    /\ Len(chat_history) = 6
    /\ chat_history[2].kind = "complete"
    /\ chat_history[4].kind = "error" /\ chat_history[4].error = "fetch"
    /\ chat_history[6].kind = "invalid"
    /\ current_stock_data # None /\ current_stock_data[1].req = 1
    /\ current_analysis = AnalysisOf(current_stock_data)

\* C20: current_stock_data and current_analysis are both None, or both set
\* and from the same request: no run ends with the stock data of one request
\* and the analysis of another, or with stock data and no analysis.
C20_SameRequest ==
    \/ current_stock_data = None /\ current_analysis = None
    \/ /\ current_stock_data # None /\ current_analysis # None
       /\ current_analysis = AnalysisOf(current_stock_data)

\* The session fields are those of the session state initialisation
\* (lines 17-23)
SessionInitial ==
    /\ chat_history = <<>>
    /\ current_stock_data = None
    /\ current_analysis = None

\* C21: the Clear Analysis action resets the whole session: the run it asks
\* for starts with current_stock_data and current_analysis None and
\* chat_history empty, whatever inputs came before; and the button is
\* clicked only in a run that displays an analysis, that is with stock data
\* and an analysis present.
C21_ClearResetsSession ==
    /\ [](app_pc = "scheduled" => SessionInitial)
    /\ [][app_pc' = "scheduled" =>
            /\ SessionInitial'
            /\ rendered = {"analysis"}
            /\ current_stock_data # None /\ current_analysis # None]_vars

C21_Witness ==
    /\ app_pc = "scheduled"
    /\ requests >= 2
    /\ rendered = {"analysis"}
    /\ SessionInitial

====
